---- MODULE Spec2Model ----
(***************************************************************************)
(* Orbital-elements teaching visualisation: the App state machine          *)
(* (src/App.tsx), the Controls panel (components/Controls), the explanation *)
(* service (services/geminiService), the explanation panel and the orbital *)
(* mathematics (src/utils/orbitalMath.ts) with the 3D guides that consume   *)
(* it (components/OrbitalScene).                                            *)
(*                                                                         *)
(* Numbers.  A JavaScript number that holds a length or a ratio (a, e, a    *)
(* sine, a vector component) is a fixed-point integer with S units per 1.   *)
(* A number that holds an angle in radians is an integer count of           *)
(* micro-radians.  Math.sin and Math.cos are evaluated through a table of   *)
(* the sine of every whole degree, at the nearest degree of the argument.   *)
(***************************************************************************)
EXTENDS Integers, Sequences, FiniteSets, TLC

VARIABLES
    elements,              \* App: useState<OrbitalElements>
    resetTrigger,          \* App: useState(0)
    explanation,           \* App: useState<{title, content} | null>; <<>> is null
    isLoadingExplanation,  \* App: useState(false)
    isPanelVisible,        \* App: useState(false)
    pending,               \* explanation requests awaiting the service, oldest first
    lastOp,                \* history: the handler that ran in the last step
    latestRequest,         \* history: paramName of the last handleExplain call
    mElements,             \* generateOrbitPath: argument elements
    mSegments,             \* generateOrbitPath: argument segments
    mJ,                    \* generateOrbitPath: loop variable j
    mPoints,               \* generateOrbitPath: local points
    mResult,               \* the sequence returned by the last completed call
    mPrevious,             \* the sequence returned by the call before it
    gElements,             \* orbitalMath: the elements record the functions are given
    gAnomaly,              \* calculatePosition: the anomaly argument of the last call
    gPosition,             \* calculatePosition: <<result>> of the last call, <<>> before
    gVectors,              \* <<node, perigee and normal vectors>>, <<>> before the calls
    gSurface               \* OrbitalPlaneSurface: <<vertices and indices>>, <<>> before

appVars == <<elements, resetTrigger, explanation, isLoadingExplanation,
             isPanelVisible, pending, lastOp, latestRequest>>
pathVars == <<mElements, mSegments, mJ, mPoints, mResult, mPrevious>>
geoVars == <<gElements, gAnomaly, gPosition, gVectors, gSurface>>
mathVars == <<mElements, mSegments, mJ, mPoints, mResult, mPrevious,
              gElements, gAnomaly, gPosition, gVectors, gSurface>>
vars == <<elements, resetTrigger, explanation, isLoadingExplanation,
          isPanelVisible, pending, lastOp, latestRequest,
          mElements, mSegments, mJ, mPoints, mResult, mPrevious,
          gElements, gAnomaly, gPosition, gVectors, gSurface>>

----------------------------------------------------------------------------
(* Bounds of the model *)

MaxResets == 1
MaxPending == 2
MaxSegments == 4

----------------------------------------------------------------------------
(* Number representation *)

S == 1000
PiMicro == 3141593
TwoPiMicro == 2 * PiMicro

\* n / d rounded to the nearest integer, d > 0
RDiv(n, d) == (n + d \div 2) \div d

\* product and quotient of two fixed-point numbers
FMul(x, y) == RDiv(x * y, S)
FDiv(x, y) == IF y > 0 THEN RDiv(x * S, y) ELSE -RDiv(x * S, -y)

\* product of a fixed-point number and an angle, in two parts to stay within
\* the integers the checker computes with
FMulAngle(x, angle) == x * (angle \div S) + RDiv(x * (angle % S), S)

\* Math.sqrt of a non-negative integer, to the nearest integer below
RECURSIVE SqrtBetween(_, _, _)
SqrtBetween(n, lo, hi) ==
    IF lo >= hi THEN lo
    ELSE LET mid == (lo + hi + 1) \div 2
         IN  IF mid * mid <= n THEN SqrtBetween(n, mid, hi)
             ELSE SqrtBetween(n, lo, mid - 1)

Sqrt(n) == SqrtBetween(n, 0, 46340)

\* v * (Math.PI/180): whole degrees to radians
DegToRad(v) == RDiv(v * PiMicro, 180)

\* rad * (180/Math.PI) rounded as toFixed(0) rounds it
NearestDegree(rad) == RDiv(rad * 180, PiMicro)

SinDegTable ==
  << 0, 17, 35, 52, 70, 87, 105, 122, 139, 156,
     174, 191, 208, 225, 242, 259, 276, 292, 309, 326,
     342, 358, 375, 391, 407, 423, 438, 454, 469, 485,
     500, 515, 530, 545, 559, 574, 588, 602, 616, 629,
     643, 656, 669, 682, 695, 707, 719, 731, 743, 755,
     766, 777, 788, 799, 809, 819, 829, 839, 848, 857,
     866, 875, 883, 891, 899, 906, 914, 921, 927, 934,
     940, 946, 951, 956, 961, 966, 970, 974, 978, 982,
     985, 988, 990, 993, 995, 996, 998, 999, 999, 1000,
     1000 >>

SinDeg(d) ==
    LET m == d % 360
    IN  IF m <= 90 THEN SinDegTable[m + 1]
        ELSE IF m <= 180 THEN SinDegTable[180 - m + 1]
        ELSE IF m <= 270 THEN -SinDegTable[m - 180 + 1]
        ELSE -SinDegTable[360 - m + 1]

Sin(rad) == SinDeg(NearestDegree(rad))
Cos(rad) == SinDeg(NearestDegree(rad) + 90)

\* Math.acos of a fixed-point cosine, to the whole degree: the largest angle
\* of 0..180 degrees whose cosine is at least c
ACos(c) ==
    LET ds == {d \in 0..180 : SinDeg(d + 90) >= c}
    IN  IF ds = {} THEN 0
        ELSE DegToRad(CHOOSE d \in ds : \A d2 \in ds : d2 <= d)

----------------------------------------------------------------------------
(* src/types.ts *)

ParameterKey == {"a", "e", "i", "omega", "raan", "nu"}

----------------------------------------------------------------------------
(* src/App.tsx: constants *)

INITIAL_ELEMENTS ==
    [a |-> 8 * S, e |-> 400, i |-> DegToRad(45), omega |-> DegToRad(45),
     raan |-> DegToRad(30), nu |-> 0]

PARAM_NAMES ==
    [a |-> "Semi-Major Axis", e |-> "Eccentricity", i |-> "Inclination",
     omega |-> "Argument of Perigee", raan |-> "RAAN", nu |-> "True Anomaly"]

Null == <<>>

\* the entry of lastOp for a handler; outcome is "" but for a settled request
Op(op, outcome) == [op |-> op, outcome |-> outcome]

----------------------------------------------------------------------------
(* components/Controls *)

\* mutant of IsCircular: the threshold itself counts as circular
IsCircularInclusive(el) == el.e <= S \div 100

\* const isCircular = elements.e < 0.01
IsCircular(el) == el.e < S \div 100

\* const isEquatorial = elements.i < 0.01 * (Math.PI / 180)
IsEquatorial(el) == el.i < RDiv(PiMicro, 18000)

\* The six SliderControl elements Controls renders for the record el: the
\* range input's min, max and step, the value it shows and its disabled prop.
\* The a and e sliders work in the unit of the field, the four angle sliders
\* in whole degrees.
Sliders(el) ==
    [a     |-> [min |-> 4 * S, max |-> 15 * S, step |-> S \div 10,
                value |-> el.a, disabled |-> FALSE],
     e     |-> [min |-> 0, max |-> 850, step |-> S \div 100,
                value |-> el.e, disabled |-> FALSE],
     i     |-> [min |-> 0, max |-> 180, step |-> 1,
                value |-> NearestDegree(el.i), disabled |-> FALSE],
     raan  |-> [min |-> 0, max |-> 360, step |-> 1,
                value |-> NearestDegree(el.raan), disabled |-> IsEquatorial(el)],
     omega |-> [min |-> 0, max |-> 360, step |-> 1,
                value |-> NearestDegree(el.omega), disabled |-> IsCircular(el)],
     nu    |-> [min |-> 0, max |-> 360, step |-> 1,
                value |-> NearestDegree(el.nu), disabled |-> FALSE]]

\* the value a slider's onChange hands to onUpdate for the input value v
OnChangeValue(key, v) == IF key \in {"a", "e"} THEN v ELSE DegToRad(v)

\* mutant of SliderControl: the input does not keep to [min, max]
SliderControlNoRange(slider, positions) ==
    IF slider.disabled THEN {}
    ELSE {v \in positions :
            /\ (v - slider.min) % slider.step = 0
            /\ v # slider.value}

\* mutant of SliderControl: the disabled prop is not passed to the input
SliderControlIgnoresDisabled(slider, positions) ==
    {v \in positions :
        /\ slider.min <= v /\ v <= slider.max
        /\ (v - slider.min) % slider.step = 0
        /\ v # slider.value}

\* <input type="range" min max step value disabled onChange>: the values the
\* input can deliver to onChange, among the positions tried. A disabled input
\* delivers none; an enabled one delivers a position of its grid other than
\* the value it shows.
SliderControl(slider, positions) ==
    IF slider.disabled THEN {}
    ELSE {v \in positions :
            /\ slider.min <= v /\ v <= slider.max
            /\ (v - slider.min) % slider.step = 0
            /\ v # slider.value}

\* the info button of a SliderControl: <button disabled={disabled}>
InfoButtonEnabled(slider) == ~slider.disabled

\* slider positions the model tries, per slider (in the slider's unit)
Positions ==
    [a |-> {4 * S, 8 * S, 15 * S, 16 * S}, e |-> {0, 10, 400, 850, 1000},
     i |-> {0, 45}, raan |-> {30, 90}, omega |-> {45, 90}, nu |-> {0, 180}]

\* the info buttons the model clicks
ExplainKeys == {"e", "omega"}

----------------------------------------------------------------------------
(* THREE.Vector3, as far as the repository uses it *)

Vector3(x, y, z) == [x |-> x, y |-> y, z |-> z]

MultiplyScalar(v, k) == Vector3(v.x * k, v.y * k, v.z * k)

\* the square of the length, in units of 1/(S*S)
LengthSq(v) == v.x * v.x + v.y * v.y + v.z * v.z

Length(v) == Sqrt(LengthSq(v))

\* divideScalar(length() || 1)
Normalize(v) ==
    LET len == Length(v)
    IN  IF len = 0 THEN v
        ELSE Vector3(FDiv(v.x, len), FDiv(v.y, len), FDiv(v.z, len))

Dot(v, w) == FMul(v.x, w.x) + FMul(v.y, w.y) + FMul(v.z, w.z)

CrossVectors(v, w) ==
    Vector3(FMul(v.y, w.z) - FMul(v.z, w.y),
            FMul(v.z, w.x) - FMul(v.x, w.z),
            FMul(v.x, w.y) - FMul(v.y, w.x))

\* v - n * (v . n), for a unit normal n
ProjectOnPlane(v, n) ==
    LET d == Dot(v, n)
    IN  Vector3(v.x - FMul(n.x, d), v.y - FMul(n.y, d), v.z - FMul(n.z, d))

\* angleTo: acos(clamp(dot / sqrt(lengthSq * lengthSq), -1, 1)), pi/2 when a
\* vector is zero
AngleTo(v, w) ==
    LET denominator == FMul(Length(v), Length(w))
    IN  IF denominator = 0 THEN PiMicro \div 2
        ELSE LET theta == FDiv(Dot(v, w), denominator)
                 clamped == IF theta > S THEN S
                            ELSE IF theta < -S THEN -S ELSE theta
             IN  ACos(clamped)

----------------------------------------------------------------------------
(* src/utils/orbitalMath.ts *)

\* an optional number argument: Undefined, or Given(x)
Undefined == <<>>
Given(x) == <<x>>

\* mutant of PerifocalToThree: a sign slipped in the first matrix element
PerifocalToThreeSignSlip(x_orb, y_orb, z_orb, el) ==
    LET cos_O == Cos(el.raan)
        sin_O == Sin(el.raan)
        cos_w == Cos(el.omega)
        sin_w == Sin(el.omega)
        cos_i == Cos(el.i)
        sin_i == Sin(el.i)
        xx == FMul(cos_O, cos_w) + FMul(FMul(sin_O, sin_w), cos_i)
        xy == FMul(-cos_O, sin_w) - FMul(FMul(sin_O, cos_w), cos_i)
        xz == FMul(sin_O, sin_i)
        yx == FMul(sin_O, cos_w) + FMul(FMul(cos_O, sin_w), cos_i)
        yy == FMul(-sin_O, sin_w) + FMul(FMul(cos_O, cos_w), cos_i)
        yz == FMul(-cos_O, sin_i)
        zx == FMul(sin_w, sin_i)
        zy == FMul(cos_w, sin_i)
        zz == cos_i
        X == FMul(xx, x_orb) + FMul(xy, y_orb) + FMul(xz, z_orb)
        Y == FMul(yx, x_orb) + FMul(yy, y_orb) + FMul(yz, z_orb)
        Z == FMul(zx, x_orb) + FMul(zy, y_orb) + FMul(zz, z_orb)
    IN  Vector3(X, Z, -Y)

PerifocalToThree(x_orb, y_orb, z_orb, el) ==
    LET cos_O == Cos(el.raan)
        sin_O == Sin(el.raan)
        cos_w == Cos(el.omega)
        sin_w == Sin(el.omega)
        cos_i == Cos(el.i)
        sin_i == Sin(el.i)
        xx == FMul(cos_O, cos_w) - FMul(FMul(sin_O, sin_w), cos_i)
        xy == FMul(-cos_O, sin_w) - FMul(FMul(sin_O, cos_w), cos_i)
        xz == FMul(sin_O, sin_i)
        yx == FMul(sin_O, cos_w) + FMul(FMul(cos_O, sin_w), cos_i)
        yy == FMul(-sin_O, sin_w) + FMul(FMul(cos_O, cos_w), cos_i)
        yz == FMul(-cos_O, sin_i)
        zx == FMul(sin_w, sin_i)
        zy == FMul(cos_w, sin_i)
        zz == cos_i
        X == FMul(xx, x_orb) + FMul(xy, y_orb) + FMul(xz, z_orb)
        Y == FMul(yx, x_orb) + FMul(yy, y_orb) + FMul(yz, z_orb)
        Z == FMul(zx, x_orb) + FMul(zy, y_orb) + FMul(zz, z_orb)
    IN  Vector3(X, Z, -Y)

\* 1 + e * Math.cos(nu), the divisor of calculatePosition
ConicDenominator(e, nu) == S + FMul(e, Cos(nu))

\* mutant of CalculatePosition: p = a * (1 - e), the square forgotten
CalculatePositionNoSquare(el, anomaly) ==
    LET nu == IF anomaly # Undefined THEN anomaly[1] ELSE el.nu
        r == FDiv(FMul(el.a, S - el.e), ConicDenominator(el.e, nu))
    IN  PerifocalToThree(FMul(r, Cos(nu)), FMul(r, Sin(nu)), 0, el)

\* mutant of CalculatePosition: the divisor is 1 - e * Math.cos(nu)
CalculatePositionMinus(el, anomaly) ==
    LET nu == IF anomaly # Undefined THEN anomaly[1] ELSE el.nu
        r == FDiv(FMul(el.a, S - FMul(el.e, el.e)), S - FMul(el.e, Cos(nu)))
    IN  PerifocalToThree(FMul(r, Cos(nu)), FMul(r, Sin(nu)), 0, el)

\* mutant of CalculatePosition: const nu = anomaly || elements.nu
CalculatePositionFalsy(el, anomaly) ==
    LET nu == IF anomaly # Undefined /\ anomaly[1] # 0 THEN anomaly[1]
              ELSE el.nu
        r == FDiv(FMul(el.a, S - FMul(el.e, el.e)), ConicDenominator(el.e, nu))
    IN  PerifocalToThree(FMul(r, Cos(nu)), FMul(r, Sin(nu)), 0, el)

\* Defined where the divisor is not zero (JavaScript yields NaN or an
\* infinity there).
CalculatePosition(el, anomaly) ==
    LET a == el.a
        e == el.e
        nu == IF anomaly # Undefined THEN anomaly[1] ELSE el.nu
        r == FDiv(FMul(a, S - FMul(e, e)), ConicDenominator(e, nu))
        x_orb == FMul(r, Cos(nu))
        y_orb == FMul(r, Sin(nu))
        z_orb == 0
    IN  PerifocalToThree(x_orb, y_orb, z_orb, el)

\* mutant of LoopContinues: j < segments
LoopStopsEarly(j, segments) == j < segments

\* generateOrbitPath: for (let j = 0; j <= segments; j++)
LoopContinues(j, segments) == j <= segments

\* generateOrbitPath: const nu = (j / segments) * 2 * Math.PI
PathAnomaly(j, segments) == FMulAngle(FDiv(j * S, segments * S) * 2, PiMicro)

\* generateOrbitPath: the number of times the loop runs its body
PathIterations(segments) ==
    CHOOSE n \in 0..(segments + 1) :
        /\ \A j \in 0..(n - 1) : LoopContinues(j, segments)
        /\ n = segments + 1 \/ ~LoopContinues(n, segments)

\* generateOrbitPath: the points pushed by the loop, in order
GenerateOrbitPath(el, segments) ==
    [k \in 1..PathIterations(segments) |->
        CalculatePosition(el, Given(PathAnomaly(k - 1, segments)))]

\* mutant of GetNodeVector: the node line taken as pole x orbit normal
GetNodeVectorFromNormal(el) ==
    Normalize(CrossVectors(Vector3(0, S, 0), PerifocalToThree(0, 0, S, el)))

\* mutant of GetNodeVector: physics Y mapped to +Z of the render frame
GetNodeVectorPlusZ(el) == Normalize(Vector3(Cos(el.raan), 0, Sin(el.raan)))

GetNodeVector(el) == Normalize(Vector3(Cos(el.raan), 0, -Sin(el.raan)))

GetPerigeeVector(el) == Normalize(CalculatePosition(el, Given(0)))

\* mutant of GetOrbitNormal: the perifocal y axis taken for the z axis
GetOrbitNormalYAxis(el) == Normalize(PerifocalToThree(0, S, 0, el))

GetOrbitNormal(el) == Normalize(PerifocalToThree(0, 0, S, el))

----------------------------------------------------------------------------
(* components/OrbitalScene *)

\* AngleArc: whether it renders anything (its points are not empty)
AngleArc(startVec, endVec) ==
    LET v1 == Normalize(startVec)
        v2 == Normalize(endVec)
        angle == AngleTo(v1, v2)
        cross == CrossVectors(v1, v2)
    IN  IF LengthSq(cross) < (S * S) \div 10000 THEN FALSE
        ELSE IF angle < 10000 THEN FALSE
        ELSE TRUE

\* OrbitalPlaneSurface: generateOrbitPath(elements, 128)
SurfaceSegments == 128

\* mutant of IndexLoopContinues: i <= points.length
IndexLoopOneMore(i, length) == i <= length

\* OrbitalPlaneSurface: for (let i = 1; i < points.length; i++)
IndexLoopContinues(i, length) == i < length

\* OrbitalPlaneSurface: the position attribute (three numbers a vertex:
\* [0, 0, 0], then x, y, z of every point) and the index (0, i, i + 1 for
\* every i of the loop) of the BufferGeometry
OrbitalPlaneSurface(el) ==
    LET points == GenerateOrbitPath(el, SurfaceSegments)
        length == Len(points)
        n == CHOOSE t \in 0..(length + 1) :
                /\ \A i \in 1..t : IndexLoopContinues(i, length)
                /\ t = length + 1 \/ ~IndexLoopContinues(t + 1, length)
    IN  [vertices |->
            [m \in 1..(3 * (length + 1)) |->
                IF m <= 3 THEN 0
                ELSE LET p == points[(m - 1) \div 3]
                     IN  CASE m % 3 = 1 -> p.x
                           [] m % 3 = 2 -> p.y
                           [] m % 3 = 0 -> p.z],
         indices |->
            [m \in 1..(3 * n) |->
                LET i == (m + 2) \div 3
                IN  CASE m % 3 = 1 -> 0
                      [] m % 3 = 2 -> i
                      [] m % 3 = 0 -> i + 1]]

\* VisualGuides: the node line, the perigee line and the angle arcs of RAAN
\* and of the argument of perigee, each with the label it prints (degrees)
VisualGuides(el) ==
    LET nodeVec == MultiplyScalar(GetNodeVector(el), 12)
        perigeeDir == GetPerigeeVector(el)
        perigeeVec == MultiplyScalar(perigeeDir, 12)
    IN  [nodeLine   |-> TRUE,
         raanArc    |-> [drawn |-> AngleArc(Vector3(S, 0, 0),
                                     ProjectOnPlane(nodeVec, Vector3(0, S, 0))),
                         label |-> NearestDegree(el.raan)],
         perigeeLine |-> TRUE,
         omegaArc   |-> [drawn |-> AngleArc(nodeVec, perigeeVec),
                         label |-> NearestDegree(el.omega)]]

----------------------------------------------------------------------------
(* services/geminiService *)

\* what the service call meets: a text, an empty text, or a failure
\* (missing API key, network error, service error)
ServiceOutcomes == {"text", "empty", "error"}
FailureOutcomes == {"error"}

\* generateOrbitalExplanation: the promise it returns, settled. The whole
\* body is inside try/catch, and the catch returns a string: the promise
\* never rejects.
GenerateOrbitalExplanation(outcome) ==
    CASE outcome = "text"  -> [rejected |-> FALSE, value |-> "AI text"]
      [] outcome = "empty" -> [rejected |-> FALSE, value |-> "No explanation yet."]
      [] outcome = "error" ->
            [rejected |-> FALSE, value |-> "AI explanation temporarily unavailable."]

----------------------------------------------------------------------------
(* src/App.tsx: handlers *)

\* mutant of UpdatedElements: the update also rewinds the satellite
UpdatedElementsRewinds(prev, key, value) ==
    [prev EXCEPT ![key] = value, !.nu = IF key = "nu" THEN value ELSE 0]

\* prev => ({ ...prev, [key]: value })
UpdatedElements(prev, key, value) == [prev EXCEPT ![key] = value]

HandleUpdateElement(key, value) ==
    /\ elements' = UpdatedElements(elements, key, value)
    /\ lastOp' = Op("update", "")
    /\ UNCHANGED <<resetTrigger, explanation, isLoadingExplanation,
                   isPanelVisible, pending, latestRequest>>

\* mutant of ResetElements: the reset leaves the true anomaly alone
ResetElementsKeepsNu == [INITIAL_ELEMENTS EXCEPT !.nu = elements.nu]

\* { ...INITIAL_ELEMENTS }
ResetElements == INITIAL_ELEMENTS

HandleReset ==
    /\ resetTrigger < MaxResets
    /\ elements' = ResetElements
    /\ resetTrigger' = resetTrigger + 1
    /\ lastOp' = Op("reset", "")
    /\ UNCHANGED <<explanation, isLoadingExplanation, isPanelVisible, pending,
                   latestRequest>>

\* mutant of HandleExplain: the handler also resets the elements
HandleExplainResets(key) ==
    /\ Len(pending) < MaxPending
    /\ isPanelVisible' = TRUE
    /\ isLoadingExplanation' = TRUE
    /\ pending' = Append(pending, PARAM_NAMES[key])
    /\ lastOp' = Op("explain", "")
    /\ latestRequest' = PARAM_NAMES[key]
    /\ elements' = INITIAL_ELEMENTS
    /\ UNCHANGED <<resetTrigger, explanation>>

\* handleExplain up to its await: the request is in flight
HandleExplain(key) ==
    /\ Len(pending) < MaxPending
    /\ isPanelVisible' = TRUE
    /\ isLoadingExplanation' = TRUE
    /\ pending' = Append(pending, PARAM_NAMES[key])
    /\ lastOp' = Op("explain", "")
    /\ latestRequest' = PARAM_NAMES[key]
    /\ UNCHANGED <<elements, resetTrigger, explanation>>

\* mutant of SettledExplanation: a failure text clears the explanation
SettledExplanationClearsOnFailure(name, res) ==
    IF res.rejected
    THEN <<[title |-> "Error", content |-> "Unable to fetch explanation."]>>
    ELSE IF res.value = "AI explanation temporarily unavailable." THEN <<>>
    ELSE <<[title |-> name, content |-> res.value]>>

\* what handleExplain stores in explanation when its await settles
SettledExplanation(name, res) ==
    IF res.rejected
    THEN <<[title |-> "Error", content |-> "Unable to fetch explanation."]>>
    ELSE <<[title |-> name, content |-> res.value]>>

\* mutant of LoadingAfterSettle: no finally block
LoadingStaysAfterSettle(loading) == loading

\* isLoadingExplanation after the finally block
LoadingAfterSettle(loading) == FALSE

\* handleExplain from its await on, for the request at index idx
HandleExplainSettle(idx, outcome) ==
    /\ explanation' =
          SettledExplanation(pending[idx], GenerateOrbitalExplanation(outcome))
    /\ isLoadingExplanation' = LoadingAfterSettle(isLoadingExplanation)
    /\ pending' = [k \in 1..(Len(pending) - 1) |->
                      IF k < idx THEN pending[k] ELSE pending[k + 1]]
    /\ lastOp' = Op("settle", outcome)
    /\ UNCHANGED <<elements, resetTrigger, isPanelVisible, latestRequest>>

\* mutant of PanelRendered: if (!isVisible) return null
PanelRenderedVisibleOnly(isVisible, isLoading) == isVisible

\* ExplanationPanel: if (!isVisible && !isLoading) return null
PanelRendered(isVisible, isLoading) == isVisible \/ isLoading

\* onClose={() => setIsPanelVisible(false)}
ClosePanel ==
    /\ isPanelVisible' = FALSE
    /\ lastOp' = Op("close", "")
    /\ UNCHANGED <<elements, resetTrigger, explanation, isLoadingExplanation,
                   pending, latestRequest>>

----------------------------------------------------------------------------
(* The user and the service *)

SliderChange ==
    /\ \E key \in ParameterKey :
         \E v \in SliderControl(Sliders(elements)[key], Positions[key]) :
            HandleUpdateElement(key, OnChangeValue(key, v))
    /\ UNCHANGED mathVars

ResetClick == HandleReset /\ UNCHANGED mathVars

InfoClick ==
    /\ \E key \in ExplainKeys :
         /\ InfoButtonEnabled(Sliders(elements)[key])
         /\ HandleExplain(key)
    /\ UNCHANGED mathVars

ServiceSettles ==
    /\ \E idx \in 1..Len(pending) : \E outcome \in ServiceOutcomes :
         HandleExplainSettle(idx, outcome)
    /\ UNCHANGED mathVars

PanelCloseClick ==
    /\ PanelRendered(isPanelVisible, isLoadingExplanation)
    /\ ClosePanel
    /\ UNCHANGED mathVars

AppInit ==
    /\ elements = INITIAL_ELEMENTS
    /\ resetTrigger = 0
    /\ explanation = Null
    /\ isLoadingExplanation = FALSE
    /\ isPanelVisible = FALSE
    /\ pending = <<>>
    /\ lastOp = Op("init", "")
    /\ latestRequest = ""

MathIdle ==
    /\ mElements = INITIAL_ELEMENTS
    /\ mSegments = 1
    /\ mJ = 0
    /\ mPoints = <<>>
    /\ mResult = <<>>
    /\ mPrevious = <<>>

GeoIdle ==
    /\ gElements = INITIAL_ELEMENTS
    /\ gAnomaly = <<>>
    /\ gPosition = <<>>
    /\ gVectors = <<>>
    /\ gSurface = <<>>

Init == AppInit /\ MathIdle /\ GeoIdle

Next ==
    \/ SliderChange
    \/ ResetClick
    \/ InfoClick
    \/ ServiceSettles
    \/ PanelCloseClick

Spec == Init /\ [][Next]_vars

\* the promise of the oldest request in flight settles
OldestRequestSettles ==
    /\ pending # <<>>
    /\ \E outcome \in ServiceOutcomes : HandleExplainSettle(1, outcome)
    /\ UNCHANGED mathVars

\* App with a service whose every call settles: the await of a request in
\* flight stays resumable until it resumes, so the oldest one does resume
SpecLive == Init /\ [][Next]_vars /\ WF_vars(OldestRequestSettles)

----------------------------------------------------------------------------
(* handleUpdateElement called with any number *)

DirectValues ==
    [a |-> {-S, 0, 4 * S, 8 * S}, e |-> {-10, 0, 400, 1000, 1500},
     i |-> {0, DegToRad(45)}, raan |-> {0, DegToRad(30)},
     omega |-> {0, DegToRad(45)}, nu |-> {0, DegToRad(180)}]

DirectUpdate ==
    /\ \E key \in ParameterKey : \E value \in DirectValues[key] :
         /\ value # elements[key]
         /\ HandleUpdateElement(key, value)
    /\ UNCHANGED mathVars

NextDirect == DirectUpdate \/ ResetClick

SpecDirect == Init /\ [][NextDirect]_vars

----------------------------------------------------------------------------
(* generateOrbitPath, called twice with the same arguments *)

PathElements ==
    {[a |-> a, e |-> e, i |-> DegToRad(i), omega |-> DegToRad(w),
      raan |-> DegToRad(30), nu |-> DegToRad(nu)] :
        a \in {4 * S, 8 * S}, e \in {0, 400, 850}, i \in {0, 45},
        w \in {45, 90}, nu \in {0, 180}}

PathInit ==
    /\ AppInit
    /\ GeoIdle
    /\ mElements \in PathElements
    /\ mSegments \in 1..MaxSegments
    /\ mJ = 0
    /\ mPoints = <<>>
    /\ mResult = <<>>
    /\ mPrevious = <<>>

\* one iteration of the loop: points.push(calculatePosition(elements, nu))
PathLoop ==
    /\ LoopContinues(mJ, mSegments)
    /\ mPoints' = Append(mPoints,
                         CalculatePosition(mElements,
                                           Given(PathAnomaly(mJ, mSegments))))
    /\ mJ' = mJ + 1
    /\ UNCHANGED <<mElements, mSegments, mResult, mPrevious>>
    /\ UNCHANGED appVars
    /\ UNCHANGED geoVars

\* return points; the next call starts with the same arguments
PathReturn ==
    /\ ~LoopContinues(mJ, mSegments)
    /\ mPrevious = <<>>
    /\ mResult' = mPoints
    /\ mPrevious' = mResult
    /\ mJ' = 0
    /\ mPoints' = <<>>
    /\ UNCHANGED <<mElements, mSegments>>
    /\ UNCHANGED appVars
    /\ UNCHANGED geoVars

NextPath == PathLoop \/ PathReturn

SpecPath == PathInit /\ [][NextPath]_vars

----------------------------------------------------------------------------
(* The functions of orbitalMath and the orbit-plane surface, called on valid
   elements records *)

GeoElements ==
    {[a |-> a, e |-> e, i |-> DegToRad(i), omega |-> DegToRad(w),
      raan |-> DegToRad(O), nu |-> DegToRad(nu)] :
        a \in {8 * S, 10 * S, 15 * S}, e \in {0, 400, 850},
        i \in {0, 45, 120}, w \in {0, 45, 200}, O \in {0, 30, 300},
        nu \in {0, 90}}

\* the anomaly arguments tried: none, perigee, apogee, and two others
GeoAnomalies ==
    {Undefined, Given(0), Given(PiMicro), Given(DegToRad(90)),
     Given(DegToRad(250))}

GeoInit ==
    /\ AppInit
    /\ MathIdle
    /\ gElements \in GeoElements
    /\ gAnomaly = <<>>
    /\ gPosition = <<>>
    /\ gVectors = <<>>
    /\ gSurface = <<>>

CallCalculatePosition ==
    /\ gSurface = <<>>
    /\ \E anomaly \in GeoAnomalies :
         /\ gAnomaly' = anomaly
         /\ gPosition' = <<CalculatePosition(gElements, anomaly)>>
    /\ UNCHANGED <<gElements, gVectors, gSurface>>
    /\ UNCHANGED appVars
    /\ UNCHANGED pathVars

CallReferenceVectors ==
    /\ gSurface = <<>>
    /\ gVectors = <<>>
    /\ gVectors' = <<[node    |-> GetNodeVector(gElements),
                      perigee |-> GetPerigeeVector(gElements),
                      normal  |-> GetOrbitNormal(gElements)]>>
    /\ UNCHANGED <<gElements, gAnomaly, gPosition, gSurface>>
    /\ UNCHANGED appVars
    /\ UNCHANGED pathVars

CallOrbitalPlaneSurface ==
    /\ gPosition = <<>> /\ gVectors = <<>>
    /\ gSurface = <<>>
    /\ gSurface' = <<OrbitalPlaneSurface(gElements)>>
    /\ UNCHANGED <<gElements, gAnomaly, gPosition, gVectors>>
    /\ UNCHANGED appVars
    /\ UNCHANGED pathVars

NextGeo ==
    \/ CallCalculatePosition
    \/ CallReferenceVectors
    \/ CallOrbitalPlaneSurface

SpecGeo == GeoInit /\ [][NextGeo]_vars

----------------------------------------------------------------------------
(* Claims *)

\* anomalies at which the conic divisor is examined: every 15 degrees
AnomalySamples == {DegToRad(15 * k) : k \in 0..24}

\* the values the sliders can hand to handleUpdateElement, per key
UpdateValues == [key \in ParameterKey |->
                    {OnChangeValue(key, v) : v \in Positions[key]}]

FailureMessages ==
    {"AI explanation temporarily unavailable.", "Unable to fetch explanation."}

\* C1: in every state reached from the default record by slider updates and
\* resets, a > 0 and 0 <= e < 1, and the divisor 1 + e*cos(nu) of
\* calculatePosition is positive, hence not zero, at every anomaly.
C1_ElementsInDomain ==
    /\ elements.a > 0
    /\ 0 <= elements.e /\ elements.e < S
    /\ \A nu \in AnomalySamples \cup {elements.nu} :
          ConicDenominator(elements.e, nu) > 0

\* C1 witness: sliders have driven e to its maximum and a to its minimum.
C1_Witness ==
    /\ lastOp.op = "update"
    /\ elements.e = 850 /\ elements.a = 4 * S
    /\ elements.nu = DegToRad(180)

\* C2: after a field update the stored record still satisfies a > 0 and
\* 0 <= e < 1, whatever value handleUpdateElement was called with.
C2_UpdateKeepsDomain ==
    lastOp.op = "update" =>
        /\ elements.a > 0
        /\ 0 <= elements.e /\ elements.e < S

\* C3: a step of handleUpdateElement(key, value) sets the field key to value
\* and leaves the other five fields, resetTrigger and the explanation state
\* as they were.
C3_UpdateChangesOneField ==
    [][lastOp'.op = "update" =>
         \A key \in ParameterKey : \A value \in UpdateValues[key] :
            HandleUpdateElement(key, value) =>
               /\ elements'[key] = value
               /\ \A k \in ParameterKey \ {key} : elements'[k] = elements[k]
               /\ resetTrigger' = resetTrigger
               /\ explanation' = explanation
               /\ isLoadingExplanation' = isLoadingExplanation
               /\ isPanelVisible' = isPanelVisible
               /\ pending' = pending]_vars

\* C3 witness: an update has just run while a request was in flight and
\* after other fields had left their defaults.
C3_Witness ==
    /\ lastOp.op = "update"
    /\ elements.a = 15 * S /\ elements.nu = DegToRad(180)
    /\ elements.e = 400
    /\ pending # <<>>

C5_FlagsFollowElements ==
    LET sliders == Sliders(elements)
    IN  /\ sliders.omega.disabled <=> (elements.e < 10)
        /\ sliders.raan.disabled <=> (elements.i < 175)
        /\ InfoButtonEnabled(sliders.omega) <=> ~(elements.e < 10)
        /\ \A key \in ParameterKey \ {"omega", "raan"} : ~sliders[key].disabled

\* C5 witness: e sits on the threshold (not circular) on an equatorial orbit.
C5_Witness ==
    /\ elements.e = 10 /\ elements.i = 0
    /\ ~Sliders(elements).omega.disabled
    /\ Sliders(elements).raan.disabled

\* C6: where e < 0.01 the scene draws no omega arc, and where i < 0.01
\* degrees it draws no RAAN arc.
C6_UndefinedAnglesNotDrawn ==
    /\ elements.e < 10 => ~VisualGuides(elements).omegaArc.drawn
    /\ elements.i < 175 => ~VisualGuides(elements).raanArc.drawn

\* C7: a step other than a reset taken where e < 0.01 leaves omega as it
\* was, and one taken where i < 0.01 degrees leaves raan as it was.
C7_LockedFieldsKeepValue ==
    [][lastOp'.op # "reset" =>
         /\ elements.e < 10 => elements'.omega = elements.omega
         /\ elements.i < 175 => elements'.raan = elements.raan]_vars

\* C7 witness: a circular, equatorial orbit whose omega and raan were moved
\* off their defaults before the orbit became singular.
C7_Witness ==
    /\ lastOp.op = "update"
    /\ elements.e = 0 /\ elements.omega = DegToRad(90)
    /\ elements.i = 0 /\ elements.raan = DegToRad(90)

\* C8: starting or settling an explanation request leaves elements and
\* resetTrigger as they were, and while a request is in flight a slider
\* update is enabled, and so is a reset (up to the bound on resets).
C8_RequestsLeaveGeometry ==
    /\ [][lastOp'.op \in {"explain", "settle"} =>
            /\ elements' = elements
            /\ resetTrigger' = resetTrigger]_vars
    /\ [](pending # <<>> =>
            /\ ENABLED SliderChange
            /\ resetTrigger < MaxResets => ENABLED ResetClick)

\* C8 witness: a request has settled while another is in flight, after
\* updates and a reset.
C8_Witness ==
    /\ lastOp.op = "settle"
    /\ pending # <<>>
    /\ resetTrigger > 0
    /\ elements # INITIAL_ELEMENTS

\* C9: when the service call fails, the step that ends the request sets
\* isLoadingExplanation to false and explanation to a generic failure
\* message and leaves elements alone; a rejected promise would be caught
\* the same way.
C9_FailureIsContained ==
    [][(lastOp'.op = "settle" /\ lastOp'.outcome \in FailureOutcomes) =>
         /\ isLoadingExplanation' = FALSE
         /\ explanation' # Null
         /\ explanation'[1].content \in FailureMessages
         /\ elements' = elements
         /\ ~GenerateOrbitalExplanation(lastOp'.outcome).rejected
         /\ SettledExplanation("RAAN", [rejected |-> TRUE, value |-> ""])[1].content
               \in FailureMessages]_vars

\* C9 witness: a failed request has just ended with another still in flight.
C9_Witness ==
    /\ lastOp = Op("settle", "error")
    /\ explanation # Null
    /\ pending # <<>>

\* C10: generateOrbitPath(elements, N) returns N+1 points, the j-th being
\* the position at anomaly 2*pi*j/N, the first and the last equal; a second
\* call with the same arguments returns the same sequence.
C10_PathIsClosedLoop ==
    mResult # <<>> =>
        /\ Len(mResult) = mSegments + 1
        /\ \A j \in 0..mSegments :
              mResult[j + 1] =
                 CalculatePosition(mElements,
                                   Given(RDiv(j * TwoPiMicro, mSegments)))
        /\ mResult[1] = mResult[Len(mResult)]
        /\ mPrevious # <<>> => mPrevious = mResult

\* C10 witness: the second call has returned, for an eccentric inclined orbit.
C10_Witness ==
    /\ mPrevious # <<>>
    /\ mSegments >= 3
    /\ mElements.e = 850 /\ mElements.i = DegToRad(45)

----------------------------------------------------------------------------
(* Claims about the geometry.  Equalities between computed lengths and
   positions are stated to the resolution of the number representation: a
   distance d to d/200 plus three thousandths, a component of a unit vector
   to three thousandths. *)

Abs(x) == IF x < 0 THEN -x ELSE x

UnitTolerance == 3 * (S \div 1000)
DistanceTolerance(d) == Abs(d) \div 200 + UnitTolerance

\* two vectors agree in every component to the tolerance tol
VNear(v, w, tol) ==
    /\ Abs(v.x - w.x) <= tol
    /\ Abs(v.y - w.y) <= tol
    /\ Abs(v.z - w.z) <= tol

\* the unit vector u scaled by the signed distance d
Scaled(u, d) == Vector3(FMul(u.x, d), FMul(u.y, d), FMul(u.z, d))

\* the record {a:10, e:0, i:0, omega:0, raan:0, nu:pi/2} of the spec
CircularEquatorial ==
    [a |-> 10 * S, e |-> 0, i |-> 0, omega |-> 0, raan |-> 0,
     nu |-> DegToRad(90)]

\* C11: calculatePosition(elements, 0) is a*(1-e) times the perigee unit
\* vector, at distance a*(1-e) from the origin; 4.8 for the default record.
C11_PerigeeDistance ==
    (gPosition # <<>> /\ gAnomaly = Given(0)) =>
        LET el == gElements
            d == FMul(el.a, S - el.e)
            p == gPosition[1]
        IN  /\ Abs(Length(p) - d) <= DistanceTolerance(d)
            /\ VNear(p, Scaled(GetPerigeeVector(el), d), DistanceTolerance(d))
            /\ el = INITIAL_ELEMENTS =>
                  Abs(Length(p) - 4800) <= DistanceTolerance(4800)

\* C11 witness: the default record evaluated at anomaly 0.
C11_Witness ==
    /\ gPosition # <<>> /\ gAnomaly = Given(0)
    /\ gElements = INITIAL_ELEMENTS

\* C12: for e > 0, calculatePosition(elements, pi) is a*(1+e) times the
\* negated perigee unit vector, at distance a*(1+e) from the origin; 11.2
\* for the default record.
C12_ApogeeDistance ==
    (gPosition # <<>> /\ gAnomaly = Given(PiMicro) /\ gElements.e > 0) =>
        LET el == gElements
            d == FMul(el.a, S + el.e)
            p == gPosition[1]
        IN  /\ Abs(Length(p) - d) <= DistanceTolerance(d)
            /\ VNear(p, Scaled(GetPerigeeVector(el), -d), DistanceTolerance(d))
            /\ el = INITIAL_ELEMENTS =>
                  Abs(Length(p) - 11200) <= DistanceTolerance(11200)

\* C12 witness: a very eccentric inclined orbit evaluated at anomaly pi.
C12_Witness ==
    /\ gPosition # <<>> /\ gAnomaly = Given(PiMicro)
    /\ gElements.e = 850 /\ gElements.i = DegToRad(120)

\* C13: getOrbitNormal is a unit vector orthogonal to getPerigeeVector, to
\* the transform of the perifocal y axis, and to every computed position.
C13_NormalIsOrthogonal ==
    gVectors # <<>> =>
        LET el == gElements
            n == gVectors[1].normal
        IN  /\ Abs(Length(n) - S) <= UnitTolerance
            /\ Abs(Dot(n, gVectors[1].perigee)) <= UnitTolerance
            /\ Abs(Dot(n, PerifocalToThree(0, S, 0, el))) <= UnitTolerance
            /\ gPosition # <<>> =>
                  Abs(Dot(n, gPosition[1]))
                     <= DistanceTolerance(Length(gPosition[1]))

\* C13 witness: normal and a position computed for a retrograde orbit.
C13_Witness ==
    /\ gVectors # <<>> /\ gPosition # <<>>
    /\ gElements.i = DegToRad(120) /\ gElements.omega = DegToRad(200)
    /\ gAnomaly = Given(DegToRad(250))

\* C14: with e = 0 the orbit counts as circular and every position lies at
\* distance a, whatever the anomaly and omega; for {a:10, e:0, i:0, omega:0,
\* raan:0, nu:pi/2} both flags hold and the distance is 10.
C14_CircularRadius ==
    (gPosition # <<>> /\ gElements.e = 0) =>
        LET el == gElements
            p == gPosition[1]
        IN  /\ IsCircular(el)
            /\ Abs(Length(p) - el.a) <= DistanceTolerance(el.a)
            /\ (el = CircularEquatorial /\ gAnomaly = Undefined) =>
                  /\ IsEquatorial(el)
                  /\ Length(p) = 10 * S

\* C14 witness: the record of the spec, evaluated at its own nu.
C14_Witness ==
    /\ gPosition # <<>> /\ gAnomaly = Undefined
    /\ gElements = CircularEquatorial

\* C15: with i = 0 the orbit counts as equatorial and getNodeVector is still
\* a unit vector in the equatorial plane (y = 0), fixed by the elements: the
\* x axis for raan = 0.
C15_NodeFallback ==
    (gVectors # <<>> /\ gElements.i = 0) =>
        LET node == gVectors[1].node
        IN  /\ IsEquatorial(gElements)
            /\ Abs(Length(node) - S) <= UnitTolerance
            /\ node.y = 0
            /\ gElements.raan = 0 => node = Vector3(S, 0, 0)

\* C15 witness: the vectors of an equatorial orbit with raan = 300 degrees.
C15_Witness ==
    /\ gVectors # <<>>
    /\ gElements.i = 0 /\ gElements.raan = DegToRad(300)

\* C16: getNodeVector is the transform of the in-plane direction at anomaly
\* -omega, (cos omega, -sin omega, 0); it lies in the equatorial plane, is
\* orthogonal to the orbit normal, and does not change with i or omega.
C16_NodeInRenderFrame ==
    gVectors # <<>> =>
        LET el == gElements
            node == gVectors[1].node
        IN  /\ VNear(node,
                     PerifocalToThree(Cos(el.omega), -Sin(el.omega), 0, el),
                     UnitTolerance)
            /\ node.y = 0
            /\ Abs(Dot(node, gVectors[1].normal)) <= UnitTolerance
            /\ \A other \in GeoElements :
                  other.raan = el.raan => GetNodeVector(other) = node

\* C16 witness: the vectors of an inclined orbit with omega = 200 degrees.
C16_Witness ==
    /\ gVectors # <<>>
    /\ gElements.i = DegToRad(45) /\ gElements.omega = DegToRad(200)
    /\ gElements.raan = DegToRad(30)

\* the position at the anomaly nu, from the conic equation
PositionAt(el, nu) ==
    LET r == FDiv(FMul(el.a, S - FMul(el.e, el.e)), S + FMul(el.e, Cos(nu)))
    IN  PerifocalToThree(FMul(r, Cos(nu)), FMul(r, Sin(nu)), 0, el)

\* C17: calculatePosition evaluates at the anomaly it is passed, 0 included,
\* and at elements.nu when it is passed none; with nu # 0 the position at
\* anomaly 0 is the perigee point and not the satellite's position.
C17_AnomalyArgument ==
    gPosition # <<>> =>
        LET el == gElements
            p == gPosition[1]
        IN  /\ gAnomaly = Undefined => p = PositionAt(el, el.nu)
            /\ gAnomaly # Undefined => p = PositionAt(el, gAnomaly[1])
            /\ (gAnomaly = Given(0) /\ el.nu # 0) =>
                  /\ p = PositionAt(el, 0)
                  /\ p # PositionAt(el, el.nu)
                  /\ VNear(Normalize(p), GetPerigeeVector(el), UnitTolerance)

\* C17 witness: anomaly 0 passed for a satellite at nu = 90 degrees.
C17_Witness ==
    /\ gPosition # <<>> /\ gAnomaly = Given(0)
    /\ gElements.nu = DegToRad(90) /\ gElements.e = 400

\* C18: the orbit-plane surface has N+2 vertices, the centre first and path
\* point k at index k+1, and N triangles (0, k, k+1), k = 1..N, every index
\* naming a vertex; N = 128.
C18_FanTriangulation ==
    gSurface # <<>> =>
        LET vertices == gSurface[1].vertices
            indices == gSurface[1].indices
            points == GenerateOrbitPath(gElements, 128)
            Vertex(n) == Vector3(vertices[3 * n + 1], vertices[3 * n + 2],
                                 vertices[3 * n + 3])
        IN  /\ Len(vertices) = 3 * (128 + 2)
            /\ Len(indices) = 3 * 128
            /\ Vertex(0) = Vector3(0, 0, 0)
            /\ Len(points) = 128 + 1
            /\ \A k \in 0..128 : Vertex(k + 1) = points[k + 1]
            /\ \A k \in 1..128 :
                  /\ indices[3 * k - 2] = 0
                  /\ indices[3 * k - 1] = k
                  /\ indices[3 * k] = k + 1
            /\ \A m \in 1..Len(indices) :
                  0 <= indices[m] /\ indices[m] < Len(vertices) \div 3

\* C18 witness: the surface of an eccentric inclined orbit.
C18_Witness ==
    /\ gSurface # <<>>
    /\ gElements.e = 850 /\ gElements.i = DegToRad(45)

\* C19: whenever a request is in flight, isLoadingExplanation is true, also
\* when a second request starts before the first has completed.
C19_LoadingWhilePending == pending # <<>> => isLoadingExplanation

\* C20: once every overlapping request has completed, the explanation shown
\* is the one of the parameter requested last.
C20_LatestRequestShown ==
    (pending = <<>> /\ explanation # Null) =>
        explanation[1].title = latestRequest

\* C21: a request that handleExplain has started leads to a state where
\* isLoadingExplanation is false and explanation is not null, whatever the
\* outcome of the service and whatever updates and resets come in between.
C21_RequestFinishes ==
    (lastOp.op = "explain" /\ isPanelVisible /\ isLoadingExplanation)
        ~> (~isLoadingExplanation /\ explanation # Null)

\* C21 witness: a failed request has settled after the elements were changed
\* and reset while it was in flight.
C21_Witness ==
    /\ lastOp = Op("settle", "error")
    /\ resetTrigger = 1
    /\ ~isLoadingExplanation /\ explanation # Null
    /\ pending = <<>>

====
